---- MODULE Spec2Model ----
(***************************************************************************)
(* Model of the unstructured-mesh stencil IR (gtc_unstructured/irs/nir.py) *)
(* and of the USID code generator (gtc_unstructured/irs/usid_codegen.py).  *)
(*                                                                         *)
(* SpecNir : construction of BlockStmt and HorizontalLoop nodes, with the  *)
(*           location-type validators that run at construction.            *)
(* SpecSym : construction of a Computation, with the validation of its     *)
(*           symbol references.                                            *)
(* SpecScope, SpecText, SpecTmp : generation runs of the code generator on *)
(*           three families of USID trees.                                 *)
(***************************************************************************)
EXTENDS Integers, Sequences, FiniteSets, TLC

VARIABLES
    pending,    \* keyword arguments the frontend is assembling for a BlockStmt
    block,      \* outcome of the BlockStmt(...) construction
    hloop,      \* outcome of the HorizontalLoop(...) construction
    loops,      \* horizontal loops built for the Computation under assembly
    comp,       \* outcome of the Computation(...) construction
    root,       \* the USID Computation handed to the generator
    gen,        \* the generator class apply is called on
    stack,      \* the visit calls in progress, outermost first
    out         \* outcome of the last finished generation run

nirVars == <<pending, block, hloop>>

symVars == <<loops, comp>>

genVars == <<root, gen, stack, out>>

vars == <<nirVars, symVars, genVars>>

(***************************************************************************)
(* Bounds of the model.                                                    *)
(***************************************************************************)
MaxStmts == 2        \* statements given to one BlockStmt
MaxDecls == 2        \* declarations given to one BlockStmt
MaxLoops == 2        \* horizontal loops of one Computation

(***************************************************************************)
(* common.LocationType, and helpers.                                       *)
(***************************************************************************)
LocationType == {"Vertex", "Edge", "Cell"}

SeqsUpTo(S, n) == UNION {[1..k -> S] : k \in 0..n}

Range(s) == {s[i] : i \in DOMAIN s}

NoNode == [status |-> "none"]

(***************************************************************************)
(* nir.Stmt / nir.LocalVar: the part of a statement or declaration the     *)
(* validators read is its location_type.                                   *)
(***************************************************************************)
Stmt == [location_type : LocationType]

LocalVar == [location_type : LocationType]

(***************************************************************************)
(* The keyword arguments of BlockStmt: location_type is a key that is      *)
(* either present or absent.                                               *)
(***************************************************************************)
NoValues == [statements |-> <<>>, declarations |-> <<>>]

WithLocationType(values, l) ==
    [statements |-> values.statements, declarations |-> values.declarations,
     location_type |-> l]

\* all_locations of BlockStmt.check_location_type: statements first, then declarations
all_locations(values) ==
    [i \in 1..Len(values.statements) |-> values.statements[i].location_type]
    \o [i \in 1..Len(values.declarations) |-> values.declarations[i].location_type]

\* mutant: the declarations are left out of the comparison
BlockStmt_check_location_type_StmtsOnly(values) ==
    LET locs == [i \in 1..Len(values.statements) |-> values.statements[i].location_type]
    IN  IF Len(locs) = 0 THEN
            IF Len(values.declarations) = 0 \/ "location_type" \in DOMAIN values
            THEN [ok |-> TRUE, values |-> values]
            ELSE [ok |-> TRUE,
                  values |-> [statements |-> values.statements,
                              declarations |-> values.declarations,
                              location_type |-> values.declarations[1].location_type]]
        ELSE IF \E i \in DOMAIN locs : locs[i] # locs[1] THEN
            [ok |-> FALSE, error |-> "ValueError"]
        ELSE IF "location_type" \notin DOMAIN values THEN
            [ok |-> TRUE,
             values |-> [statements |-> values.statements,
                         declarations |-> values.declarations,
                         location_type |-> locs[1]]]
        ELSE IF locs[1] # values.location_type THEN
            [ok |-> FALSE, error |-> "ValueError"]
        ELSE [ok |-> TRUE, values |-> values]

\* BlockStmt.check_location_type, the pre root validator
BlockStmt_check_location_type(values) ==
    LET locs == all_locations(values)
    IN  IF Len(locs) = 0 THEN
            [ok |-> TRUE, values |-> values]
        ELSE IF \E i \in DOMAIN locs : locs[i] # locs[1] THEN
            [ok |-> FALSE, error |-> "ValueError"]
        ELSE IF "location_type" \notin DOMAIN values THEN
            [ok |-> TRUE,
             values |-> [statements |-> values.statements,
                         declarations |-> values.declarations,
                         location_type |-> locs[1]]]
        ELSE IF locs[1] # values.location_type THEN
            [ok |-> FALSE, error |-> "ValueError"]
        ELSE [ok |-> TRUE, values |-> values]

\* Stmt.location_type is a field without a default: after the pre validator
\* the key must be there, or construction fails.
Stmt_location_type_required(values) == "location_type" \in DOMAIN values

\* BlockStmt(**values): the node, or the validation error
BlockStmt(values) ==
    LET r == BlockStmt_check_location_type(values)
    IN  IF ~r.ok THEN [status |-> "error", input |-> values, error |-> r.error]
        ELSE IF ~Stmt_location_type_required(r.values)
             THEN [status |-> "error", input |-> values, error |-> "field required"]
        ELSE [status |-> "ok", input |-> values, node |-> r.values]

(***************************************************************************)
(* nir.IterationSpace and nir.HorizontalLoop.                              *)
(***************************************************************************)
IterationSpace == [location_type : LocationType]

\* mutant: the location type of the loop is inferred from the block
HorizontalLoop_check_location_type_Infer(values) ==
    [ok |-> TRUE,
     values |-> [stmt |-> values.stmt,
                 iteration_space |-> [location_type |-> values.stmt.location_type]]]

\* HorizontalLoop.check_location_type, the pre root validator
HorizontalLoop_check_location_type(values) ==
    IF values.stmt.location_type # values.iteration_space.location_type
    THEN [ok |-> FALSE, error |-> "ValueError"]
    ELSE [ok |-> TRUE, values |-> values]

\* HorizontalLoop(**values)
HorizontalLoop(values) ==
    LET r == HorizontalLoop_check_location_type(values)
    IN  IF ~r.ok THEN [status |-> "error", input |-> values, error |-> r.error]
        ELSE [status |-> "ok", input |-> values, node |-> r.values]

(***************************************************************************)
(* SpecNir: the frontend builds nodes bottom-up.                           *)
(***************************************************************************)
InitNir ==
    /\ pending = NoValues /\ block = NoNode /\ hloop = NoNode
    /\ loops = <<>> /\ comp = NoNode
    /\ root = NoNode /\ gen = "UsidCodeGenerator" /\ stack = <<>> /\ out = NoNode

\* the frontend appends a statement to the arguments of the next block
AddStatement ==
    /\ block = NoNode
    /\ Len(pending.statements) < MaxStmts
    /\ \E st \in Stmt :
          pending' = [pending EXCEPT !.statements = Append(@, st)]
    /\ UNCHANGED <<block, hloop, symVars, genVars>>

\* the frontend appends a declaration to the arguments of the next block
AddDeclaration ==
    /\ block = NoNode
    /\ Len(pending.declarations) < MaxDecls
    /\ \E d \in LocalVar :
          pending' = [pending EXCEPT !.declarations = Append(@, d)]
    /\ UNCHANGED <<block, hloop, symVars, genVars>>

\* the frontend supplies the block's own location_type
SupplyLocationType ==
    /\ block = NoNode
    /\ "location_type" \notin DOMAIN pending
    /\ \E l \in LocationType : pending' = WithLocationType(pending, l)
    /\ UNCHANGED <<block, hloop, symVars, genVars>>

\* the frontend constructs the BlockStmt
NewBlockStmt ==
    /\ block = NoNode
    /\ block' = BlockStmt(pending)
    /\ pending' = NoValues
    /\ UNCHANGED <<hloop, symVars, genVars>>

\* the frontend constructs a HorizontalLoop around the block it built
NewHorizontalLoop ==
    /\ block.status = "ok"
    /\ hloop = NoNode
    /\ \E it \in IterationSpace :
          hloop' = HorizontalLoop([stmt |-> block.node, iteration_space |-> it])
    /\ UNCHANGED <<pending, block, symVars, genVars>>

\* the frontend goes on to the next block
NextBlock ==
    /\ block # NoNode
    /\ block' = NoNode
    /\ hloop' = NoNode
    /\ UNCHANGED <<pending, symVars, genVars>>

NextNir ==
    \/ AddStatement
    \/ AddDeclaration
    \/ SupplyLocationType
    \/ NewBlockStmt
    \/ NewHorizontalLoop
    \/ NextBlock

SpecNir == InitNir /\ [][NextNir]_vars

(***************************************************************************)
(* C1: a BlockStmt built from at least one declaration or statement is     *)
(* constructed exactly when all of them have one location type and a       *)
(* supplied location_type equals it; an omitted location_type is set to    *)
(* that common value; otherwise construction fails and yields no node.     *)
(***************************************************************************)
CommonLocation(values) ==
    LET all == Range(values.statements) \cup Range(values.declarations)
    IN  {l \in LocationType : \A n \in all : n.location_type = l}

C1_BlockLocationType ==
    (block.status # "none"
       /\ Len(block.input.statements) + Len(block.input.declarations) > 0)
    => LET common == CommonLocation(block.input)
           supplied == "location_type" \in DOMAIN block.input
       IN  /\ block.status = "ok"
                <=> /\ common # {}
                    /\ supplied => block.input.location_type \in common
           /\ block.status = "ok"
                => /\ block.node.location_type \in common
                   /\ block.node.statements = block.input.statements
                   /\ block.node.declarations = block.input.declarations
           /\ block.status = "error" => "node" \notin DOMAIN block

C1_Witness ==
    /\ block.status = "ok"
    /\ "location_type" \notin DOMAIN block.input
    /\ Len(block.input.statements) >= 1
    /\ Len(block.input.declarations) >= 1
    /\ block.node.location_type = "Edge"

(***************************************************************************)
(* C2: a constructed HorizontalLoop has a block whose location type equals *)
(* that of its iteration space; a mismatched pair fails; neither side is   *)
(* changed (nothing is inferred).                                          *)
(***************************************************************************)
C2_LoopLocationType ==
    hloop.status # "none"
    => /\ hloop.status = "ok"
            <=> hloop.input.stmt.location_type
                  = hloop.input.iteration_space.location_type
       /\ hloop.status = "ok"
            => /\ hloop.node.stmt.location_type
                     = hloop.node.iteration_space.location_type
               /\ hloop.node.stmt = hloop.input.stmt
               /\ hloop.node.iteration_space = hloop.input.iteration_space
       /\ hloop.status = "error" => "node" \notin DOMAIN hloop

C2_Witness ==
    /\ hloop.status = "ok"
    /\ hloop.node.stmt.location_type = "Cell"
    /\ Len(hloop.node.stmt.statements) >= 1

(***************************************************************************)
(* Symbols of the high-level IR.  A field of type SymbolName declares a    *)
(* symbol, a field of type SymbolRef refers to one.  The nodes are kept    *)
(* with the fields of these two types.                                     *)
(***************************************************************************)
SymNames == {"a", "b"}

None == "None"

\* nir.FieldAccess: primary: SymbolRef, secondary: Optional[SymbolRef]
FieldAccess ==
    [kind : {"FieldAccess"}, primary : SymNames, secondary : SymNames \cup {None}]

\* nir.NeighborLoop: name: SymbolName, connectivity: SymbolRef, body: BlockStmt
NeighborLoop ==
    [kind : {"NeighborLoop"}, name : SymNames, connectivity : SymNames,
     body : {<<fa>> : fa \in {f \in FieldAccess : f.secondary = None}}]

\* nir.UField / nir.SparseField: name: SymbolName; SparseField.connectivity: SymbolRef
Fields ==
    [kind : {"UField"}, name : {"a"}]
    \cup [kind : {"SparseField"}, name : {"a"}, connectivity : SymNames]

\* nir.Connectivity: name: SymbolName
Connectivity == [name : SymNames]

\* nir.HorizontalLoop with its IterationSpace (name: SymbolName) and its block
SymHorizontalLoop ==
    [iteration_space : [name : SymNames],
     stmt : {<<st>> : st \in FieldAccess \cup NeighborLoop}]

\* mutant: FieldAccess.secondary taken for a plain string, not a SymbolRef
symbol_refs_NoSecondary(node) ==
    IF node.kind = "NeighborLoop" THEN <<node.connectivity>>
    ELSE IF node.kind = "FieldAccess" THEN <<node.primary>>
    ELSE IF node.kind = "SparseField" THEN <<node.connectivity>>
    ELSE <<>>

\* the values of the SymbolRef fields of a node (an Optional one may be None)
symbol_refs(node) ==
    IF node.kind = "NeighborLoop" THEN <<node.connectivity>>
    ELSE IF node.kind = "FieldAccess" THEN
        <<node.primary>> \o (IF node.secondary = None THEN <<>> ELSE <<node.secondary>>)
    ELSE IF node.kind = "SparseField" THEN <<node.connectivity>>
    ELSE <<>>

\* the symbols a HorizontalLoop declares: its iteration space and the loop
\* variables of the neighbor loops in its block
HorizontalLoop_symtable(h) ==
    {h.iteration_space.name}
    \cup {h.stmt[i].name : i \in {j \in DOMAIN h.stmt : h.stmt[j].kind = "NeighborLoop"}}

\* the symbols a Computation declares: connectivities, parameters, temporaries
Computation_symtable(values) ==
    {c.name : c \in Range(values.connectivities)}
    \cup {f.name : f \in Range(values.params)}
    \cup {f.name : f \in Range(values.declarations)}

\* the symbol references of `nodes` (and of the bodies of its neighbor loops),
\* in visiting order, that symtable does not hold
RECURSIVE missing_symbols(_, _)
missing_symbols(nodes, symtable) ==
    IF nodes = <<>> THEN <<>>
    ELSE LET node == Head(nodes)
             here == SelectSeq(symbol_refs(node), LAMBDA r : r \notin symtable)
             below == IF node.kind = "NeighborLoop"
                      THEN missing_symbols(node.body, symtable)
                      ELSE <<>>
         IN  here \o below \o missing_symbols(Tail(nodes), symtable)

\* the horizontal loops: each one is a scope that adds its declarations
RECURSIVE missing_in_loops(_, _)
missing_in_loops(hls, symtable) ==
    IF hls = <<>> THEN <<>>
    ELSE missing_symbols(Head(hls).stmt, symtable \cup HorizontalLoop_symtable(Head(hls)))
         \o missing_in_loops(Tail(hls), symtable)

\* Computation._validate_symbol_refs
validate_symbol_refs(values) ==
    LET symtable == Computation_symtable(values)
        missing == missing_symbols(values.params, symtable)
                   \o missing_in_loops(values.horizontal_loops, symtable)
    IN  IF Len(missing) > 0
        THEN [ok |-> FALSE, error |-> "ValueError", missing |-> missing]
        ELSE [ok |-> TRUE]

\* Computation(**values)
Computation(values) ==
    LET r == validate_symbol_refs(values)
    IN  IF ~r.ok THEN [status |-> "error", input |-> values, error |-> r.error]
        ELSE [status |-> "ok", input |-> values, node |-> values]

(***************************************************************************)
(* SpecSym: the frontend builds the horizontal loops, then the root.       *)
(***************************************************************************)
InitSym ==
    /\ pending = NoValues /\ block = NoNode /\ hloop = NoNode
    /\ loops = <<>> /\ comp = NoNode
    /\ root = NoNode /\ gen = "UsidCodeGenerator" /\ stack = <<>> /\ out = NoNode

\* the frontend builds one more HorizontalLoop of the Computation
AddHorizontalLoop ==
    /\ comp = NoNode
    /\ Len(loops) < MaxLoops
    /\ \E h \in SymHorizontalLoop : loops' = Append(loops, h)
    /\ UNCHANGED <<comp, nirVars, genVars>>

\* the frontend constructs the root from the loops it built
NewComputation ==
    /\ comp = NoNode
    /\ \E cs \in SeqsUpTo(Connectivity, 1), ps \in SeqsUpTo(Fields, 1) :
          comp' = Computation([connectivities |-> cs, params |-> ps,
                               horizontal_loops |-> loops, declarations |-> <<>>])
    /\ loops' = <<>>
    /\ UNCHANGED <<nirVars, genVars>>

\* the frontend goes on to the next Computation
NextComputation ==
    /\ comp # NoNode
    /\ comp' = NoNode
    /\ UNCHANGED <<loops, nirVars, genVars>>

NextSym ==
    \/ AddHorizontalLoop
    \/ NewComputation
    \/ NextComputation

SpecSym == InitSym /\ [][NextSym]_vars

(***************************************************************************)
(* C3: in a validated Computation every symbol reference (the connectivity *)
(* of a NeighborLoop or SparseField, the primary and secondary of a        *)
(* FieldAccess) names a symbol declared by an enclosing scope (the         *)
(* Computation or the HorizontalLoop); a tree with a dangling reference    *)
(* fails validation as a whole.                                            *)
(***************************************************************************)
DeclaredByComputation(c) ==
    {c.connectivities[i].name : i \in DOMAIN c.connectivities}
    \cup {c.params[i].name : i \in DOMAIN c.params}

DeclaredByLoop(h) ==
    {h.iteration_space.name}
    \cup {st.name : st \in {x \in Range(h.stmt) : x.kind = "NeighborLoop"}}

AccessResolves(fa, scope) ==
    /\ fa.primary \in scope
    /\ fa.secondary # None => fa.secondary \in scope

AllRefsResolve(c) ==
    /\ \A f \in Range(c.params) :
          f.kind = "SparseField" => f.connectivity \in DeclaredByComputation(c)
    /\ \A h \in Range(c.horizontal_loops) :
          LET scope == DeclaredByComputation(c) \cup DeclaredByLoop(h)
          IN  \A st \in Range(h.stmt) :
                 /\ st.kind = "FieldAccess" => AccessResolves(st, scope)
                 /\ st.kind = "NeighborLoop"
                      => /\ st.connectivity \in scope
                         /\ \A fa \in Range(st.body) : AccessResolves(fa, scope)

C3_SymbolRefsResolve ==
    comp.status # "none"
    => /\ comp.status = "ok" <=> AllRefsResolve(comp.input)
       /\ comp.status = "ok" => comp.node = comp.input
       /\ comp.status = "error" => "node" \notin DOMAIN comp

C3_Witness ==
    /\ comp.status = "ok"
    /\ Len(comp.node.horizontal_loops) = 2
    /\ \E f \in Range(comp.node.params) : f.kind = "SparseField"
    /\ \E h \in Range(comp.node.horizontal_loops) :
          \E st \in Range(h.stmt) :
             /\ st.kind = "NeighborLoop"
             /\ st.body[1].primary = st.name
             /\ st.name # h.iteration_space.name
    /\ \E h \in Range(comp.node.horizontal_loops) :
          \E st \in Range(h.stmt) :
             st.kind = "FieldAccess" /\ st.secondary # None

(***************************************************************************)
(* The USID code generator (usid_codegen.py).                              *)
(*                                                                         *)
(* A context (the keyword arguments threaded through the visit calls) is a *)
(* function from keys to values; a symtable is a function from names to    *)
(* declarations.  Emitted text is kept as a sequence of tokens, one record *)
(* per rendered template.                                                  *)
(***************************************************************************)
DataType == {"BOOLEAN", "INT32", "UINT32", "FLOAT32", "FLOAT64"}

\* UsidCodeGenerator.DATA_TYPE_TO_STR
DATA_TYPE_TO_STR ==
    [BOOLEAN |-> "bool", INT32 |-> "int", UINT32 |-> "unsigned_int",
     FLOAT32 |-> "float", FLOAT64 |-> "double"]

\* UsidCodeGenerator.visit_LocationType
visit_LocationType(node) ==
    CASE node = "Vertex" -> "vertex"
      [] node = "Edge"   -> "edge"
      [] node = "Cell"   -> "cell"

\* UsidCodeGenerator.visit_bool
visit_bool(node) == IF node THEN "true" ELSE "false"

\* the generator classes
Generators == {"UsidCodeGenerator", "UsidGpuCodeGenerator", "UsidNaiveCodeGenerator"}

\* headers_ of each class
headers_(cls) ==
    <<"<gridtools/usid/dim.hpp>", "<gridtools/usid/helpers.hpp>">>
    \o (CASE cls = "UsidGpuCodeGenerator"   -> <<"<gridtools/usid/cuda_helpers.hpp>">>
          [] cls = "UsidNaiveCodeGenerator" -> <<"<gridtools/usid/naive_helpers.hpp>">>
          [] OTHER -> <<>>)

\* namespace_ of each class (None renders as the text None)
namespace_(cls) ==
    CASE cls = "UsidGpuCodeGenerator"   -> "cuda"
      [] cls = "UsidNaiveCodeGenerator" -> "naive"
      [] OTHER -> "None"

CudaGuard == "#ifndef __CUDACC__ #error Tried to compile CUDA code with a regular C++ compiler. #endif"

\* preface_ of each class
preface_(cls) ==
    CASE cls = "UsidGpuCodeGenerator" -> CudaGuard
      [] OTHER -> ""

(***************************************************************************)
(* Python's call and dict semantics.                                       *)
(***************************************************************************)
Err(e) == [ok |-> FALSE, error |-> e]

\* {**a, **b}: on a key of both, b wins
Merge(a, b) ==
    [k \in DOMAIN a \cup DOMAIN b |-> IF k \in DOMAIN b THEN b[k] ELSE a[k]]

\* a dict without some keys
Without(d, keys) == [k \in DOMAIN d \ keys |-> d[k]]

\* f(node, **explicit, **kwargs): a key given twice is a TypeError
Call(explicit, kwargs) ==
    IF DOMAIN explicit \cap DOMAIN kwargs # {}
    THEN Err("TypeError")
    ELSE [ok |-> TRUE, ctx |-> Merge(explicit, kwargs)]

\* obj.attr on a declaration found in a symtable
HasAttr(obj, attr) == attr \in DOMAIN obj

(***************************************************************************)
(* UsidCodeGenerator.location_type_from_dimensions                         *)
(***************************************************************************)
isLocationType(dim) == dim \in LocationType

\* mutant: the first location type is taken, however many there are
location_type_from_dimensions_First(dimensions) ==
    LET location_type == SelectSeq(dimensions, isLocationType)
    IN  IF Len(location_type) = 0 THEN Err("ValueError")
        ELSE [ok |-> TRUE, value |-> location_type[1]]

location_type_from_dimensions(dimensions) ==
    LET location_type == SelectSeq(dimensions, isLocationType)
    IN  IF Len(location_type) # 1 THEN Err("ValueError")
        ELSE [ok |-> TRUE, value |-> location_type[1]]

(***************************************************************************)
(* The custom visit steps.  Each takes the node and the context it is      *)
(* called with and gives the context it hands to generic_visit (ctx) and   *)
(* the children to visit, or the error it raises.  The children are        *)
(* visited with ctx, except those of a KernelCall (see KidCtx).            *)
(***************************************************************************)
Visit(ctx, kids) == [ok |-> TRUE, ctx |-> ctx, kids |-> kids]

\* generic_visit(node, **ctx) of a node with a template only
Children(node) ==
    CASE node.kind = "SidComposite" -> node.entries
      [] node.kind = "AssignStmt"   -> <<node.left, node.right>>
      [] OTHER -> <<>>

generic_visit(node, kwargs) == Visit(kwargs, Children(node))

visit_SidCompositeSparseEntry(node, kwargs) ==
    IF "symtable" \notin DOMAIN kwargs \/ node.connectivity \notin DOMAIN kwargs.symtable
    THEN Err("KeyError")
    ELSE IF ~HasAttr(kwargs.symtable[node.connectivity], "tag")
    THEN Err("AttributeError")
    ELSE LET c == Call([connectivity_tag |-> kwargs.symtable[node.connectivity].tag],
                       kwargs)
         IN  IF ~c.ok THEN c ELSE Visit(c.ctx, <<>>)

\* self.visit(composites, **kwargs) renders the composites with kwargs;
\* generic_visit gets domain and sids only (sids: the rendered composites)
visit_KernelCall(node, kwargs) ==
    IF "symtable" \notin DOMAIN kwargs \/ node.name \notin DOMAIN kwargs.symtable
    THEN Err("KeyError")
    ELSE LET kernel == kwargs.symtable[node.name]
         IN  IF ~(HasAttr(kernel, "primary_location")
                  /\ HasAttr(kernel, "primary_composite")
                  /\ HasAttr(kernel, "secondary_composites"))
             THEN Err("AttributeError")
             ELSE Visit([domain |-> visit_LocationType(kernel.primary_location)],
                        <<kernel.primary_composite>> \o kernel.secondary_composites)

\* {**node.symtable_, **symtable}
NeighborLoop_symtable(node, symtable) == Merge(node.symtable_, symtable)

visit_NeighborLoop(node, kwargs) ==
    IF "symtable" \notin DOMAIN kwargs THEN Err("TypeError")
    ELSE LET symtable == kwargs.symtable
             rest == Without(kwargs, {"symtable"})
         IN  IF node.primary_sid \notin DOMAIN symtable
                \/ node.connectivity \notin DOMAIN symtable
             THEN Err("KeyError")
             ELSE LET c == Call([symtable |-> NeighborLoop_symtable(node, symtable),
                                 primary_sid_deref |-> symtable[node.primary_sid],
                                 connectivity_deref |-> symtable[node.connectivity]],
                                rest)
                  IN  IF ~c.ok THEN c ELSE Visit(c.ctx, node.body)

\* generic_visit gets c_has_skip_values only
visit_Connectivity(node, kwargs) ==
    Visit([c_has_skip_values |-> IF node.has_skip_values THEN "true" ELSE "false"],
          <<>>)

visit_Temporary(node, kwargs) ==
    IF node.vtype \notin DOMAIN DATA_TYPE_TO_STR THEN Err("KeyError")
    ELSE LET c_vtype == DATA_TYPE_TO_STR[node.vtype]
             lt == location_type_from_dimensions(node.dimensions)
         IN  IF ~lt.ok THEN lt
             ELSE LET c == Call([loctype |-> visit_LocationType(lt.value),
                                 c_vtype |-> c_vtype], kwargs)
                  IN  IF ~c.ok THEN c ELSE Visit(c.ctx, <<>>)

\* {**symtable, **node.symtable_}
Kernel_symtable(node, symtable) == Merge(symtable, node.symtable_)

visit_Kernel(node, kwargs) ==
    IF "symtable" \notin DOMAIN kwargs THEN Err("TypeError")
    ELSE LET symtable == kwargs.symtable
             rest == Without(kwargs, {"symtable"})
             primary_signature ==
                 [ptr_name |-> node.primary_composite.ptr_name,
                  strides_name |-> node.primary_composite.strides_name]
             secondary_signature ==
                 [i \in DOMAIN node.secondary_composites |->
                     node.secondary_composites[i].name]
             c == Call([symtable |-> Kernel_symtable(node, symtable),
                        primary_signature |-> primary_signature,
                        secondary_signature |-> secondary_signature], rest)
         IN  IF ~c.ok THEN c
             ELSE Visit(c.ctx,
                        <<node.primary_composite>> \o node.secondary_composites
                        \o node.body)

\* the set of forward declarations, one per distinct tag
field_tags(node) ==
    {f.tag : f \in Range(node.parameters) \cup Range(node.temporaries)}

visit_Computation(node, kwargs) ==
    LET c == Call([field_tags |-> field_tags(node),
                   connectivity_params |->
                       [i \in DOMAIN node.connectivities |-> node.connectivities[i].name],
                   connectivity_fields |->
                       [i \in DOMAIN node.connectivities |->
                           [name |-> node.connectivities[i].name,
                            tag |-> node.connectivities[i].tag]],
                   field_params |->
                       [i \in DOMAIN node.parameters |-> node.parameters[i].name],
                   symtable |-> node.symtable_],
                  kwargs)
    IN  IF ~c.ok THEN c
        ELSE Visit(c.ctx,
                   node.connectivities \o node.temporaries \o node.kernels
                   \o node.ctrlflow_ast)

\* the dispatch of visit(node, **kwargs) on the node's class
visit(node, kwargs) ==
    CASE node.kind = "Computation"             -> visit_Computation(node, kwargs)
      [] node.kind = "Kernel"                  -> visit_Kernel(node, kwargs)
      [] node.kind = "NeighborLoop"            -> visit_NeighborLoop(node, kwargs)
      [] node.kind = "KernelCall"              -> visit_KernelCall(node, kwargs)
      [] node.kind = "Connectivity"            -> visit_Connectivity(node, kwargs)
      [] node.kind = "Temporary"               -> visit_Temporary(node, kwargs)
      [] node.kind = "SidCompositeSparseEntry" ->
             visit_SidCompositeSparseEntry(node, kwargs)
      [] OTHER -> generic_visit(node, kwargs)

(***************************************************************************)
(* The templates.  A frame holds a visited node, the context handed to     *)
(* generic_visit (ctx) and the rendered children (texts); the template of  *)
(* the node's class gives one token, the Computation template the tokens   *)
(* of the whole translation unit.                                          *)
(***************************************************************************)
Text(tokens) == [ok |-> TRUE, text |-> tokens]

\* Connectivity = as_mako(...)
Connectivity_template(f) ==
    Text(<<[t |-> "connectivity", tag |-> f.node.tag,
            max_neighbors |-> f.node.max_neighbors,
            c_has_skip_values |-> f.ctx.c_has_skip_values]>>)

\* Temporary = as_mako(...): make_simple_tmp_storage<c_vtype>(d.loctype, d.k, alloc)
Temporary_template(f) ==
    Text(<<[t |-> "temporary", name |-> f.node.name, c_vtype |-> f.ctx.c_vtype,
            loctype |-> f.ctx.loctype, k |-> "d.k", alloc |-> "alloc"]>>)

\* SidCompositeEntry = as_fmt("{ref}")
SidCompositeEntry_template(f) == Text(<<[t |-> "entry", ref |-> f.node.ref]>>)

\* SidCompositeSparseEntry = as_fmt("sid::rename_dimensions<dim::s, {connectivity_tag}>({ref})")
SidCompositeSparseEntry_template(f) ==
    Text(<<[t |-> "rename_dimensions", connectivity_tag |-> f.ctx.connectivity_tag,
            ref |-> f.node.ref]>>)

\* SidComposite = as_mako(...)
SidComposite_template(f) ==
    Text(<<[t |-> "composite",
            names |-> [i \in DOMAIN f.node.entries |-> f.node.entries[i].name],
            entries |-> f.texts]>>)

\* FieldAccess = as_mako(...): the two lookups run when the template is rendered
FieldAccess_template(f) ==
    IF "symtable" \notin DOMAIN f.ctx THEN Err("NameError")
    ELSE IF f.node.sid \notin DOMAIN f.ctx.symtable
            \/ f.node.name \notin DOMAIN f.ctx.symtable
    THEN Err("KeyError")
    ELSE LET composite_deref == f.ctx.symtable[f.node.sid]
             sid_entry_deref == f.ctx.symtable[f.node.name]
         IN  IF ~HasAttr(sid_entry_deref, "name") \/ ~HasAttr(composite_deref, "ptr_name")
             THEN Err("AttributeError")
             ELSE Text(<<[t |-> "field", name |-> sid_entry_deref.name,
                          ptr_name |-> composite_deref.ptr_name]>>)

\* AssignStmt = as_fmt("{left} = {right};")
AssignStmt_template(f) ==
    Text(<<[t |-> "assign", left |-> f.texts[1], right |-> f.texts[2]]>>)

\* NeighborLoop = as_mako(...)
NeighborLoop_template(f) ==
    IF ~HasAttr(f.ctx.connectivity_deref, "tag")
       \/ ~HasAttr(f.ctx.primary_sid_deref, "ptr_name")
       \/ ~HasAttr(f.ctx.primary_sid_deref, "strides_name")
    THEN Err("AttributeError")
    ELSE Text(<<[t |-> "foreach_neighbor", tag |-> f.ctx.connectivity_deref.tag,
                 primary |-> f.node.primary, secondary |-> f.node.secondary,
                 body |-> f.texts,
                 ptr_name |-> f.ctx.primary_sid_deref.ptr_name,
                 strides_name |-> f.ctx.primary_sid_deref.strides_name,
                 secondary_sid |-> f.node.secondary_sid]>>)

\* Kernel = as_mako(...): of the rendered children the template uses the body
Kernel_template(f) ==
    Text(<<[t |-> "kernel", name |-> f.node.name,
            primary_signature |-> f.ctx.primary_signature,
            secondary_signature |-> f.ctx.secondary_signature,
            body |-> SubSeq(f.texts, 2 + Len(f.node.secondary_composites),
                            Len(f.texts))]>>)

\* KernelCall = as_mako(...): sids are the composites rendered by visit_KernelCall
KernelCall_template(f) ==
    Text(<<[t |-> "call_kernel", name |-> f.node.name, domain |-> f.ctx.domain,
            sids |-> f.texts]>>)

OfKind(texts, kind) == SelectSeq(texts, LAMBDA tok : tok.t = kind)

\* mutant: the forward declarations of the tags put before the connectivities
Computation_sections_TagsFirst(connectivities, tags, kernels) ==
    tags \o connectivities \o kernels

\* the order of the three declaration sections inside the namespace
Computation_sections(connectivities, tags, kernels) ==
    connectivities \o tags \o kernels

\* Computation = as_mako(...); order is the order in which the set field_tags
\* is iterated by ''.join(field_tags)
Computation_template(f, cls, order) ==
    LET temporaries == OfKind(f.texts, "temporary")
    IN  Text(
        [i \in DOMAIN headers_(cls) |-> [t |-> "include", header |-> headers_(cls)[i]]]
        \o <<[t |-> "namespace", name |-> f.node.name],
             [t |-> "using", ns |-> "gridtools"],
             [t |-> "using", ns |-> "gridtools::usid"],
             [t |-> "using_backend", ns |-> namespace_(cls)]>>
        \o Computation_sections(
               OfKind(f.texts, "connectivity"),
               [i \in DOMAIN order |-> [t |-> "field_tag", tag |-> order[i]]],
               OfKind(f.texts, "kernel"))
        \o <<[t |-> "entry_point", name |-> f.node.name,
              connectivity_params |-> f.ctx.connectivity_params,
              connectivity_fields |-> f.ctx.connectivity_fields,
              field_params |-> f.ctx.field_params]>>
        \o (IF Len(temporaries) > 0 THEN <<[t |-> "make_allocator"]>> ELSE <<>>)
        \o temporaries
        \o OfKind(f.texts, "call_kernel")
        \o <<[t |-> "using_decl", name |-> f.node.name]>>)

\* the orders in which a set of tags may be iterated
Orders(S) ==
    {o \in [1..Cardinality(S) -> S] : \A i, j \in DOMAIN o : i # j => o[i] # o[j]}

\* render_template: the template of the node's class
render(f, cls, order) ==
    CASE f.node.kind = "Computation"             -> Computation_template(f, cls, order)
      [] f.node.kind = "Kernel"                  -> Kernel_template(f)
      [] f.node.kind = "NeighborLoop"            -> NeighborLoop_template(f)
      [] f.node.kind = "KernelCall"              -> KernelCall_template(f)
      [] f.node.kind = "Connectivity"            -> Connectivity_template(f)
      [] f.node.kind = "Temporary"               -> Temporary_template(f)
      [] f.node.kind = "SidCompositeSparseEntry" -> SidCompositeSparseEntry_template(f)
      [] f.node.kind = "SidCompositeEntry"       -> SidCompositeEntry_template(f)
      [] f.node.kind = "SidComposite"            -> SidComposite_template(f)
      [] f.node.kind = "FieldAccess"             -> FieldAccess_template(f)
      [] f.node.kind = "AssignStmt"              -> AssignStmt_template(f)

(***************************************************************************)
(* USID trees.  A scope node carries symtable_, the mapping from the names *)
(* it declares to the declaring nodes.                                     *)
(***************************************************************************)
NameMap(nodes) ==
    [n \in {nodes[i].name : i \in DOMAIN nodes} |->
        nodes[CHOOSE i \in DOMAIN nodes :
                 /\ nodes[i].name = n
                 /\ \A j \in DOMAIN nodes : nodes[j].name = n => j <= i]]

UsidConnectivity(skip) ==
    [kind |-> "Connectivity", name |-> "c0", tag |-> "C0", max_neighbors |-> 4,
     has_skip_values |-> skip]

UsidField(name, tag) == [kind |-> "UField", name |-> name, tag |-> tag]

UsidTemporary(name, tag, vtype, dimensions) ==
    [kind |-> "Temporary", name |-> name, tag |-> tag, vtype |-> vtype,
     dimensions |-> dimensions]

SidCompositeEntry(ref, name) ==
    [kind |-> "SidCompositeEntry", ref |-> ref, name |-> name]

SidCompositeSparseEntry(ref, name, connectivity) ==
    [kind |-> "SidCompositeSparseEntry", ref |-> ref, name |-> name,
     connectivity |-> connectivity]

SidComposite(name, entries) ==
    [kind |-> "SidComposite", name |-> name,
     ptr_name |-> [sid |-> name, part |-> "ptr"],
     strides_name |-> [sid |-> name, part |-> "strides"],
     entries |-> entries]

PtrRef(name) == [kind |-> "PtrRef", name |-> name]

UsidFieldAccess(sid, name) == [kind |-> "FieldAccess", sid |-> sid, name |-> name]

UsidAssignStmt(left, right) == [kind |-> "AssignStmt", left |-> left, right |-> right]

UsidNeighborLoop(primary_sid, primary, body) ==
    [kind |-> "NeighborLoop", primary_sid |-> primary_sid, secondary_sid |-> "sec",
     connectivity |-> "c0", primary |-> primary, secondary |-> "n", body |-> body,
     symtable_ |-> NameMap(<<PtrRef(primary), PtrRef("n")>>)]

UsidKernel(name, primary_location, primary_composite, secondary_composites, body) ==
    [kind |-> "Kernel", name |-> name, primary_location |-> primary_location,
     primary_composite |-> primary_composite,
     secondary_composites |-> secondary_composites, body |-> body,
     symtable_ |->
        LET composites == <<primary_composite>> \o secondary_composites
            RECURSIVE entries(_)
            entries(cs) == IF cs = <<>> THEN <<>>
                           ELSE Head(cs).entries \o entries(Tail(cs))
        IN  NameMap(entries(composites) \o composites)]

UsidKernelCall(name) == [kind |-> "KernelCall", name |-> name]

UsidComputation(connectivities, parameters, temporaries, kernels, ctrlflow_ast) ==
    [kind |-> "Computation", name |-> "comp", connectivities |-> connectivities,
     parameters |-> parameters, temporaries |-> temporaries, kernels |-> kernels,
     ctrlflow_ast |-> ctrlflow_ast,
     symtable_ |-> NameMap(parameters \o temporaries \o kernels \o connectivities)]

(***************************************************************************)
(* The families of trees the generator is run on.                          *)
(***************************************************************************)
MaxNest == 2         \* neighbor loops nested in one another
MaxParams == 2       \* parameters of a Computation
MaxTemps == 1        \* temporaries of a Computation (text family)
MaxDims == 2         \* dimensions of a Temporary

Vertical == "VerticalDimension"

Sec == SidComposite("sec", <<SidCompositeSparseEntry("s0", "s0_tag", "c0")>>)

Prim(name) == SidComposite(name, <<SidCompositeEntry("f0", "f0_tag")>>)

Assign(primary_sid) ==
    UsidAssignStmt(UsidFieldAccess(primary_sid, "f0_tag"),
                   UsidFieldAccess("sec", "s0_tag"))

\* a neighbor loop names its loop variable p, or c0 like the connectivity
RECURSIVE NeighborLoops(_, _)
NeighborLoops(primary_sid, depth) ==
    IF depth = 0 THEN {}
    ELSE {UsidNeighborLoop(primary_sid, lv, body) :
             lv \in {"p", "c0"},
             body \in {<<Assign(primary_sid)>>}
                      \cup {<<n>> : n \in NeighborLoops(primary_sid, depth - 1)}}

\* a kernel names its primary composite prim, or c0 like the connectivity
Kernels ==
    UNION {{UsidKernel("k0", "Cell", Prim(pname), <<Sec>>, body) :
               body \in {<<>>} \cup {<<n>> : n \in NeighborLoops(pname, MaxNest)}} :
           pname \in {"prim", "c0"}}

K0 == UsidKernel("k0", "Cell", Prim("prim"), <<Sec>>,
                 <<UsidNeighborLoop("prim", "p", <<Assign("prim")>>)>>)

K1 == UsidKernel("k1", "Vertex", Prim("prim"), <<>>, <<>>)

K2 == UsidKernel("k2", "Edge", Prim("prim"), <<>>, <<>>)

TemporaryNames == <<"t1", "t2", "t3">>

ParameterNames == <<"f1", "f2", "f3", "f4">>

\* the temporaries share one tag, the parameters alternate between two
GoodTemporary(i) ==
    UsidTemporary(TemporaryNames[i], "T", "FLOAT64", <<"Cell", Vertical>>)

Parameter(i) == UsidField(ParameterNames[i], IF i % 2 = 1 THEN "A" ELSE "B")

FullRoot ==
    UsidComputation(<<UsidConnectivity(FALSE)>>, <<Parameter(1)>>,
                    <<GoodTemporary(1)>>, <<K0>>, <<UsidKernelCall("k0")>>)

RootsScope ==
    {UsidComputation(<<UsidConnectivity(FALSE)>>, <<Parameter(1)>>,
                     <<GoodTemporary(1)>>, <<k>>, <<UsidKernelCall("k0")>>) :
        k \in Kernels}

RootsText ==
    {FullRoot} \cup
    {UsidComputation(cs, [i \in 1..np |-> Parameter(i)],
                     [i \in 1..nt |-> GoodTemporary(i)], ks[1], ks[2]) :
        cs \in {<<>>, <<UsidConnectivity(FALSE)>>, <<UsidConnectivity(TRUE)>>},
        np \in 0..MaxParams, nt \in 0..MaxTemps,
        ks \in {<< <<>>, <<>> >>,
                << <<K1>>, <<UsidKernelCall("k1")>> >>,
                << <<K1, K2>>, <<UsidKernelCall("k2"), UsidKernelCall("k1")>> >>}}

Temporaries ==
    {UsidTemporary("t", "T0", vtype, dims) :
        vtype \in DataType, dims \in SeqsUpTo(LocationType \cup {Vertical}, MaxDims)}

RootsTmp ==
    {FullRoot} \cup
    {UsidComputation(<<>>, <<>>, temps, <<K1>>, <<UsidKernelCall("k1")>>) :
        temps \in UNION {{<<tmp>>, <<tmp, GoodTemporary(1)>>, <<GoodTemporary(1), tmp>>} :
                            tmp \in Temporaries}}

\* the initial contexts apply is called with
ExtDecl == [kind |-> "External", name |-> "ext"]

InitialContexts ==
    {<<>>, [symtable |-> <<>>], [symtable |-> [ext |-> ExtDecl]], [user |-> "u"]}

(***************************************************************************)
(* A generation run: the recursion of visit, generic_visit and             *)
(* render_template as a stack of frames.                                   *)
(***************************************************************************)
Frame(node, kwargs, v) ==
    [node |-> node, kwargs |-> kwargs, ctx |-> v.ctx, kids |-> v.kids, texts |-> <<>>]

\* the context the children of a frame's node are visited with
KidCtx(f) == IF f.node.kind = "KernelCall" THEN f.kwargs ELSE f.ctx

Top == stack[Len(stack)]

Raise(kwargs, error) == [status |-> "error", kwargs |-> kwargs, error |-> error]

InitGen(roots) ==
    /\ pending = NoValues /\ block = NoNode /\ hloop = NoNode
    /\ loops = <<>> /\ comp = NoNode
    /\ root \in roots /\ gen \in Generators /\ stack = <<>> /\ out = NoNode

\* cls.apply(root, **kwargs): the visit of the root
Apply ==
    /\ stack = <<>>
    /\ \E kwargs \in InitialContexts :
          LET v == visit(root, kwargs)
          IN  IF v.ok
              THEN stack' = <<Frame(root, kwargs, v)>> /\ out' = out
              ELSE stack' = <<>> /\ out' = Raise(kwargs, v.error)
    /\ UNCHANGED <<root, gen, nirVars, symVars>>

\* the next child of the node on top is of one of these classes
NextChildIs(kinds) ==
    /\ stack # <<>>
    /\ Top.kids # <<>>
    /\ Head(Top.kids).kind \in kinds

\* visit(child, **KidCtx): the call is entered, or the error it raises ends the run
VisitChild ==
    LET child == Head(Top.kids)
        v == visit(child, KidCtx(Top))
    IN  IF v.ok
        THEN [stack |-> Append([stack EXCEPT ![Len(stack)].kids = Tail(@)],
                               Frame(child, KidCtx(Top), v)),
              out |-> out]
        ELSE [stack |-> <<>>, out |-> Raise(stack[1].kwargs, v.error)]

Visit_Kernel ==
    /\ NextChildIs({"Kernel"})
    /\ stack' = VisitChild.stack /\ out' = VisitChild.out
    /\ UNCHANGED <<root, gen, nirVars, symVars>>

Visit_NeighborLoop ==
    /\ NextChildIs({"NeighborLoop"})
    /\ stack' = VisitChild.stack /\ out' = VisitChild.out
    /\ UNCHANGED <<root, gen, nirVars, symVars>>

Visit_KernelCall ==
    /\ NextChildIs({"KernelCall"})
    /\ stack' = VisitChild.stack /\ out' = VisitChild.out
    /\ UNCHANGED <<root, gen, nirVars, symVars>>

Visit_Connectivity ==
    /\ NextChildIs({"Connectivity"})
    /\ stack' = VisitChild.stack /\ out' = VisitChild.out
    /\ UNCHANGED <<root, gen, nirVars, symVars>>

Visit_Temporary ==
    /\ NextChildIs({"Temporary"})
    /\ stack' = VisitChild.stack /\ out' = VisitChild.out
    /\ UNCHANGED <<root, gen, nirVars, symVars>>

Visit_SidCompositeSparseEntry ==
    /\ NextChildIs({"SidCompositeSparseEntry"})
    /\ stack' = VisitChild.stack /\ out' = VisitChild.out
    /\ UNCHANGED <<root, gen, nirVars, symVars>>

\* a child whose class has a template and no custom step
Generic_visit ==
    /\ NextChildIs({"SidComposite", "SidCompositeEntry", "AssignStmt", "FieldAccess"})
    /\ stack' = VisitChild.stack /\ out' = VisitChild.out
    /\ UNCHANGED <<root, gen, nirVars, symVars>>

\* the children of the node on top are rendered: its template is rendered
\* and the text returned to the caller
Render ==
    /\ Len(stack) > 1
    /\ Top.kids = <<>>
    /\ LET r == render(Top, gen, <<>>)
       IN  IF r.ok
           THEN stack' = [SubSeq(stack, 1, Len(stack) - 1)
                            EXCEPT ![Len(stack) - 1].texts = @ \o r.text]
                /\ out' = out
           ELSE stack' = <<>> /\ out' = Raise(stack[1].kwargs, r.error)
    /\ UNCHANGED <<root, gen, nirVars, symVars>>

\* the root is rendered: the run returns the generated code
Finish ==
    /\ Len(stack) = 1
    /\ Top.kids = <<>>
    /\ \E order \in Orders(Top.ctx.field_tags) :
          LET r == render(Top, gen, order)
          IN  out' = [status |-> "ok", kwargs |-> Top.kwargs, text |-> r.text]
    /\ stack' = <<>>
    /\ UNCHANGED <<root, gen, nirVars, symVars>>

NextGen ==
    \/ Apply
    \/ Visit_Kernel
    \/ Visit_NeighborLoop
    \/ Visit_KernelCall
    \/ Visit_Connectivity
    \/ Visit_Temporary
    \/ Visit_SidCompositeSparseEntry
    \/ Generic_visit
    \/ Render
    \/ Finish

SpecScope == InitGen(RootsScope) /\ [][NextGen]_vars

SpecText == InitGen(RootsText) /\ [][NextGen]_vars

SpecTmp == InitGen(RootsTmp) /\ [][NextGen]_vars

(***************************************************************************)
(* C4: at every Kernel and NeighborLoop visited, the symtable handed to    *)
(* the children is the enclosing symtable overridden by the node's own     *)
(* declarations: a name declared by both resolves to the node's own.       *)
(***************************************************************************)
InnermostWins(f) ==
    LET enclosing == f.kwargs.symtable
        own == f.node.symtable_
    IN  /\ "symtable" \in DOMAIN f.ctx
        /\ DOMAIN f.ctx.symtable = DOMAIN enclosing \cup DOMAIN own
        /\ \A n \in DOMAIN own : f.ctx.symtable[n] = own[n]
        /\ \A n \in DOMAIN enclosing \ DOMAIN own : f.ctx.symtable[n] = enclosing[n]

C4_InnermostWins ==
    \A i \in DOMAIN stack :
        stack[i].node.kind \in {"Kernel", "NeighborLoop"} => InnermostWins(stack[i])

(***************************************************************************)
(* C5: a run whose initial context supplies a symtable succeeds, and the   *)
(* children of the Computation see the supplied symtable extended with     *)
(* the Computation's declarations.                                         *)
(***************************************************************************)
C5_SuppliedSymtableExtended ==
    /\ (out # NoNode /\ "symtable" \in DOMAIN out.kwargs) => out.status = "ok"
    /\ (stack # <<>> /\ "symtable" \in DOMAIN stack[1].kwargs)
         => LET supplied == stack[1].kwargs.symtable
                seen == stack[1].ctx.symtable
            IN  /\ \A n \in DOMAIN root.symtable_ : seen[n] = root.symtable_[n]
                /\ \A n \in DOMAIN supplied \ DOMAIN root.symtable_ :
                      seen[n] = supplied[n]

(***************************************************************************)
(* C6: the text of the GPU generator holds the CUDA compiler guard, the    *)
(* cuda namespace segment and the cuda helper include; the text of the     *)
(* host generator holds none of them.                                      *)
(***************************************************************************)
HasGuard(text) ==
    \E i \in DOMAIN text : text[i].t = "preface" /\ text[i].text = CudaGuard

HasCudaNamespace(text) ==
    \E i \in DOMAIN text : text[i].t = "using_backend" /\ text[i].ns = "cuda"

HasCudaInclude(text) ==
    \E i \in DOMAIN text :
        text[i].t = "include" /\ text[i].header = "<gridtools/usid/cuda_helpers.hpp>"

C6_BackendText ==
    out.status = "ok"
    => /\ gen = "UsidGpuCodeGenerator"
            => HasGuard(out.text) /\ HasCudaNamespace(out.text)
               /\ HasCudaInclude(out.text)
       /\ gen = "UsidNaiveCodeGenerator"
            => ~HasGuard(out.text) /\ ~HasCudaNamespace(out.text)
               /\ ~HasCudaInclude(out.text)

(***************************************************************************)
(* C7: two runs on the same tree, each with an empty initial context,      *)
(* give the same text.                                                     *)
(***************************************************************************)
C7_Deterministic ==
    [][(/\ out.status = "ok" /\ out.kwargs = <<>>
        /\ Len(stack) = 1 /\ stack' = <<>>
        /\ out'.status = "ok" /\ out'.kwargs = <<>>)
       => out'.text = out.text]_vars

(***************************************************************************)
(* C8: a Temporary is generated exactly when its dimensions hold one       *)
(* location type, and then the allocation is sized by the mesh dimension   *)
(* of that location type (Cell: d.cell), the vertical extent d.k and the   *)
(* element type of its vtype (FLOAT64: double); with no or several         *)
(* location types the run fails and gives no text.                         *)
(***************************************************************************)
LocationDims(tmp) == {i \in DOMAIN tmp.dimensions : tmp.dimensions[i] \in LocationType}

Allocation(tmp) ==
    LET l == tmp.dimensions[CHOOSE i \in LocationDims(tmp) : TRUE]
    IN  [t |-> "temporary", name |-> tmp.name,
         c_vtype |-> IF tmp.vtype = "FLOAT64" THEN "double" ELSE DATA_TYPE_TO_STR[tmp.vtype],
         loctype |-> IF l = "Cell" THEN "cell" ELSE visit_LocationType(l),
         k |-> "d.k", alloc |-> "alloc"]

C8_TemporaryAllocation ==
    /\ \A i \in DOMAIN stack :
          stack[i].node.kind = "Temporary"
          => /\ Cardinality(LocationDims(stack[i].node)) = 1
             /\ stack[i].ctx.loctype = Allocation(stack[i].node).loctype
             /\ stack[i].ctx.c_vtype = Allocation(stack[i].node).c_vtype
    /\ out.status = "ok"
          => \A tmp \in Range(root.temporaries) :
                /\ Cardinality(LocationDims(tmp)) = 1
                /\ \E i \in DOMAIN out.text : out.text[i] = Allocation(tmp)
    /\ (out # NoNode
        /\ \E tmp \in Range(root.temporaries) : Cardinality(LocationDims(tmp)) # 1)
          => out.status = "error" /\ "text" \notin DOMAIN out

C8_Witness ==
    /\ out.status = "ok"
    /\ Len(root.temporaries) = 2
    /\ \E tmp \in Range(root.temporaries) :
          /\ tmp.vtype = "INT32"
          /\ tmp.dimensions = <<Vertical, "Edge">>
          /\ \E i \in DOMAIN out.text :
                /\ out.text[i].t = "temporary" /\ out.text[i].name = tmp.name
                /\ out.text[i].loctype = "edge" /\ out.text[i].c_vtype = "int"

(***************************************************************************)
(* C9 as stated: the sections come in the order includes, namespace, tag   *)
(* forward declarations, connectivity declarations, kernels, entry point;  *)
(* the allocator is made only if there are temporaries, the temporaries    *)
(* are allocated before the control flow, the kernel calls keep the order  *)
(* of the IR.                                                              *)
(***************************************************************************)
At(text, kind) == {i \in DOMAIN text : text[i].t = kind}

Before(text, kind1, kind2) ==
    \A i \in At(text, kind1), j \in At(text, kind2) : i < j

EntryPointBody(text) ==
    /\ At(text, "make_allocator") # {} <=> root.temporaries # <<>>
    /\ Cardinality(At(text, "make_allocator")) <= 1
    /\ Before(text, "entry_point", "make_allocator")
    /\ Before(text, "entry_point", "temporary")
    /\ Before(text, "entry_point", "call_kernel")
    /\ Before(text, "make_allocator", "temporary")
    /\ Before(text, "temporary", "call_kernel")
    /\ [i \in DOMAIN root.temporaries |-> root.temporaries[i].name]
         = [i \in DOMAIN OfKind(text, "temporary") |-> OfKind(text, "temporary")[i].name]
    /\ [i \in DOMAIN root.ctrlflow_ast |-> root.ctrlflow_ast[i].name]
         = [i \in DOMAIN OfKind(text, "call_kernel") |->
               OfKind(text, "call_kernel")[i].name]

Sections(text) ==
    /\ Cardinality(At(text, "namespace")) = 1
    /\ Cardinality(At(text, "entry_point")) = 1
    /\ At(text, "include") # {}
    /\ Before(text, "include", "namespace")
    /\ {text[i].tag : i \in At(text, "field_tag")} = field_tags(root)
    /\ Cardinality(At(text, "field_tag")) = Cardinality(field_tags(root))
    /\ [i \in DOMAIN root.connectivities |-> root.connectivities[i].tag]
         = [i \in DOMAIN OfKind(text, "connectivity") |->
               OfKind(text, "connectivity")[i].tag]
    /\ [i \in DOMAIN root.kernels |-> root.kernels[i].name]
         = [i \in DOMAIN OfKind(text, "kernel") |-> OfKind(text, "kernel")[i].name]
    /\ Before(text, "namespace", "field_tag")
    /\ Before(text, "namespace", "connectivity")
    /\ Before(text, "namespace", "kernel")
    /\ Before(text, "field_tag", "kernel")
    /\ Before(text, "connectivity", "kernel")
    /\ Before(text, "kernel", "entry_point")
    /\ Before(text, "field_tag", "entry_point")
    /\ Before(text, "connectivity", "entry_point")
    /\ Before(text, "namespace", "entry_point")

C9_SectionOrder_AsStated ==
    out.status = "ok"
    => /\ Sections(out.text)
       /\ Before(out.text, "field_tag", "connectivity")
       /\ EntryPointBody(out.text)

(***************************************************************************)
(* C9 amended: as above, with the connectivity declarations before the     *)
(* tag forward declarations.                                               *)
(***************************************************************************)
C9_SectionOrder ==
    out.status = "ok"
    => /\ Sections(out.text)
       /\ Before(out.text, "connectivity", "field_tag")
       /\ EntryPointBody(out.text)

C9_Witness ==
    /\ out.status = "ok"
    /\ Len(root.connectivities) = 1
    /\ Cardinality(field_tags(root)) >= 2
    /\ Len(root.temporaries) >= 1
    /\ Len(root.kernels) = 2
    /\ Len(root.ctrlflow_ast) = 2
    /\ root.ctrlflow_ast[1].name # root.kernels[1].name
    /\ At(out.text, "make_allocator") # {}

(***************************************************************************)
(* C10: every custom visit step hands to generic_visit every context       *)
(* value it received and does not itself shadow, unchanged.                *)
(***************************************************************************)
CustomSteps ==
    {"SidCompositeSparseEntry", "KernelCall", "NeighborLoop", "Connectivity",
     "Temporary", "Kernel", "Computation"}

Shadowed(kind) ==
    IF kind \in {"NeighborLoop", "Kernel", "Computation"} THEN {"symtable"} ELSE {}

C10_ContextForwarded ==
    \A i \in DOMAIN stack :
        stack[i].node.kind \in CustomSteps
        => \A k \in DOMAIN stack[i].kwargs \ Shadowed(stack[i].node.kind) :
              k \in DOMAIN stack[i].ctx /\ stack[i].ctx[k] = stack[i].kwargs[k]

====
